---- MODULE Spec2Model ----
(***************************************************************************)
(* The twiddled, truncated and matrix-Fourier transform layers of          *)
(* src/mpc/src/abs.c (fft_butterfly_twiddle, fft_radix2_twiddle,           *)
(* fft_truncate1_twiddle, fft_mfa_truncate_sqrt2 and its outer variant)    *)
(* as a state machine over coefficient buffers, pointer slots and an       *)
(* explicit call stack.                                                    *)
(*                                                                         *)
(* A coefficient is a residue modulo 2^nw+1.  A buffer holds a tuple of    *)
(* residues: with one component it is a concrete residue; with 4n+3        *)
(* components it is the linear form (row of the transform matrix) that     *)
(* the buffer's value is of the 4n input coefficients and the three        *)
(* uninitialised scratch contents.  Every operation of the transform is    *)
(* linear, so two buffers hold equal forms iff they hold equal residues    *)
(* for every input.                                                        *)
(***************************************************************************)
EXTENDS Integers, Sequences, FiniteSets, TLC

\* ------------------------------------------------------------------ bounds
\* The machine word has 2^LogBits bits (the program: 2^5 or 2^6).
LogBits == 2
\* Half-lengths n = 2^k with k <= MaxLogN.
MaxLogN == 2
\* Coefficients have 1..MaxLimbs words.
MaxLimbs == 2
\* The twiddle rate ws and the column c of the column calls are at most MaxTw.
MaxTw == 2

\* At most MaxTasks column tasks run at once.
MaxTasks == 2

\* init_prime_sieve is called with pmax <= MaxPmax.
MaxPmax == 600
\* prime_sieve is called with high_prime - low_prime <= MaxSpan.
MaxSpan == 130
\* The bitmap of a window has 1..MaxRangeWords words.
MaxRangeWords == 2
\* PRIMES_USED_STEP, by which primes_used_in_range grows (the program: 2000).
PRIMES_USED_STEP == 2

FLINT_BITS == 2 ^ LogBits

\* The call stack holds at most this many frames; a recursion that does not
\* reach a base case stops here.
StackCap == MaxLogN + 5

\* --------------------------------------------------------------- arithmetic
Modulus(limbs) == 2 ^ (limbs * FLINT_BITS) + 1

Pow2Set == {2 ^ k : k \in 0..(MaxLogN + 1)}

IsPow2(x) == x \in {2 ^ k : k \in 0..(2 * MaxLogN + 4)}

\* mpn_add_n on limbs+1 words: the sum of two residues.
mpn_add_n(a, b, limbs) ==
    [k \in DOMAIN a |-> (a[k] + b[k]) % Modulus(limbs)]

\* The difference of two residues (the subtraction inside butterfly_lshB).
mpn_sub_n(a, b, limbs) ==
    [k \in DOMAIN a |-> (a[k] + Modulus(limbs) - b[k]) % Modulus(limbs)]

\* mpn_neg_n on limbs+1 words: the negated residue.
mpn_neg_n(a, limbs) ==
    [k \in DOMAIN a |-> (Modulus(limbs) - a[k]) % Modulus(limbs)]

\* mpn_mul_2expmod_2expp1(t, i1, limbs, d): t = i1 * 2^d, one doubling and
\* reduction per bit.
RECURSIVE mpn_mul_2expmod_2expp1(_, _, _)
mpn_mul_2expmod_2expp1(a, limbs, d) ==
    IF d <= 0 THEN a
    ELSE mpn_mul_2expmod_2expp1(
             [k \in DOMAIN a |-> (2 * a[k]) % Modulus(limbs)], limbs, d - 1)

\* butterfly_lshB(u, v, s, t, limbs, x, y): u = B^x (s + t), v = B^y (s - t),
\* B = 2^FLINT_BITS (whole-word shifts).
butterfly_lshB(s, t, limbs, x, y) ==
    << mpn_mul_2expmod_2expp1(mpn_add_n(s, t, limbs), limbs, x * FLINT_BITS),
       mpn_mul_2expmod_2expp1(mpn_sub_n(s, t, limbs), limbs, y * FLINT_BITS) >>

\* fft_butterfly(s, t, i1, i2, i, limbs, w): s = i1 + i2, t = z^i (i1 - i2)
\* with z = 2^w.
fft_butterfly(i1, i2, i, limbs, w) ==
    LET b1 == i * w
        y == b1 \div FLINT_BITS
        uv == butterfly_lshB(i1, i2, limbs, 0, y)
    IN  << uv[1], mpn_mul_2expmod_2expp1(uv[2], limbs, b1 % FLINT_BITS) >>

\* fft_adjust(r, i1, i, limbs, w): r = z^i * i1 with z = 2^w.
fft_adjust(i1, i, limbs, w) == mpn_mul_2expmod_2expp1(i1, limbs, i * w)

\* Multiplication by sqrt2 = 2^(3nw/4) - 2^(nw/4), whose square is 2 modulo
\* 2^nw + 1 (nw a multiple of 4).  The second element is the intermediate
\* product the operation leaves in its work buffer temp.
MulSqrt2(a, limbs) ==
    LET nw == limbs * FLINT_BITS
        lo == mpn_mul_2expmod_2expp1(a, limbs, nw \div 4)
        hi == mpn_mul_2expmod_2expp1(a, limbs, (3 * nw) \div 4)
    IN  << mpn_sub_n(hi, lo, limbs), lo >>

\* fft_adjust_sqrt2(r, i1, i, limbs, w, temp): r = z1^i * i1 where z1^2 = 2^w
\* (i and w odd): z1^i = 2^((i*w - 1)/2) * sqrt2.
fft_adjust_sqrt2(i1, i, limbs, w) ==
    MulSqrt2(mpn_mul_2expmod_2expp1(i1, limbs, (i * w) \div 2), limbs)

\* fft_butterfly_sqrt2(s, t, i1, i2, i, limbs, w, temp): s = i1 + i2,
\* t = z1^i (i1 - i2) where z1^2 = 2^w (i and w odd).  Third element: temp.
fft_butterfly_sqrt2(i1, i2, i, limbs, w) ==
    LET d == fft_adjust_sqrt2(mpn_sub_n(i1, i2, limbs), i, limbs, w)
    IN  << mpn_add_n(i1, i2, limbs), d[1], d[2] >>

\* n_revbin(in, bits): the low `bits` bits of `in`, reversed.
RECURSIVE n_revbin(_, _)
n_revbin(in, bits) ==
    IF bits <= 0 THEN 0
    ELSE (in % 2) * 2 ^ (bits - 1) + n_revbin(in \div 2, bits - 1)

\* depth with (1 << depth) >= x, as the while loops of lines 242-245 find it.
RECURSIVE DepthFrom(_, _)
DepthFrom(x, d) == IF 2 ^ d < x THEN DepthFrom(x, d + 1) ELSE d

Depth(x) == DepthFrom(x, 0)

\* ------------------------------------------------- fft_butterfly_twiddle
fft_butterfly_twiddle_negswap(s, t, limbs, b1, b2) ==
    LET nw == limbs * FLINT_BITS
        negate2 == b1 >= nw
        c1 == IF b1 >= nw THEN b1 - nw ELSE b1
        negate1 == b2 >= nw
        c2 == IF b2 >= nw THEN b2 - nw ELSE b2
        uv == butterfly_lshB(s, t, limbs, c1 \div FLINT_BITS, c2 \div FLINT_BITS)
        u1 == mpn_mul_2expmod_2expp1(uv[1], limbs, c1 % FLINT_BITS)
        v1 == mpn_mul_2expmod_2expp1(uv[2], limbs, c2 % FLINT_BITS)
    IN  << IF negate1 THEN mpn_neg_n(u1, limbs) ELSE u1,
           IF negate2 THEN mpn_neg_n(v1, limbs) ELSE v1 >>

fft_butterfly_twiddle(s, t, limbs, b1, b2) ==
    LET nw == limbs * FLINT_BITS
        negate2 == b1 >= nw
        c1 == IF b1 >= nw THEN b1 - nw ELSE b1
        x == c1 \div FLINT_BITS
        d1 == c1 % FLINT_BITS
        negate1 == b2 >= nw
        c2 == IF b2 >= nw THEN b2 - nw ELSE b2
        y == c2 \div FLINT_BITS
        d2 == c2 % FLINT_BITS
        uv == butterfly_lshB(s, t, limbs, x, y)
        u1 == mpn_mul_2expmod_2expp1(uv[1], limbs, d1)
        u2 == IF negate2 THEN mpn_neg_n(u1, limbs) ELSE u1
        v1 == mpn_mul_2expmod_2expp1(uv[2], limbs, d2)
        v2 == IF negate1 THEN mpn_neg_n(v1, limbs) ELSE v1
    IN  << u2, v2 >>

\* ------------------------------------------------------------------- state
\* par    : the parameters of the run (fixed by Init)
\* buf    : buffer id -> coefficient value
\* ii     : slot k of the signal (0-based) is ii[k+1], a buffer id
\* t1, t2, temp : scratch set -> the buffer id *t1, *t2, *temp point to
\* stacks : task -> its call stack, a sequence of frames
\* hist   : what has happened so far (never read by the program)
\* sv     : the state of the prime sieve of primes.c (<< >> in the runs of
\*          the transforms)
VARIABLES par, buf, ii, t1, t2, temp, stacks, hist, sv

vars == << par, buf, ii, t1, t2, temp, stacks, hist, sv >>

N2(p) == (2 * p.n) \div p.n1

Trunc2(p) == (p.trunc - 2 * p.n) \div p.n1

MfaLimbs(p) == (p.n * p.w) \div FLINT_BITS

\* The limbs of a twiddled or truncated call: (w * n) / FLINT_BITS.
Limbs(f) == (f.w * f.n) \div FLINT_BITS

\* The job (entry point) the run is in.
Job == par.jobs[hist.job]

\* Every task on the one scratch triple.
Sc_shared(tid) == 1

\* The scratch triple a task's calls are passed: the caller's one triple, or
\* in the job "cols" a triple of the task's own.
Sc(tid) == IF Job = "cols" THEN tid ELSE 1

Top(tid) == stacks[tid][Len(stacks[tid])]

Running(tid) == Len(stacks[tid]) > 0

Frame(fn, base, is, n, w, ws, r, c, rs, trunc) ==
    [fn |-> fn, pc |-> "entry", k |-> "none", base |-> base, is |-> is,
     n |-> n, w |-> w, ws |-> ws, r |-> r, c |-> c, rs |-> rs,
     trunc |-> trunc, half |-> 0, i |-> 0, j |-> 0, s |-> 0,
     a1 |-> 0, a2 |-> 0]

Unit(k, dim) == [x \in 1..dim |-> IF x = k THEN 1 ELSE 0]

\* The value slot k holds.
Val(k) == buf[ii[k + 1]]

\* ------------------------------------------------------------ control flow
\* fft_radix2_twiddle from its first line: the n == 1 test, else the loop.
radix2_twiddle_entry(f) ==
    [f EXCEPT !.pc = IF f.n = 1 THEN "leaf"
                     ELSE IF 0 < f.n THEN "bfly" ELSE "rec1", !.i = 0]

\* fft_truncate1_twiddle from its first line: the three cases on trunc.
truncate1_twiddle_entry_nodeleg(f) ==
    [f EXCEPT !.pc = IF f.trunc <= f.n
                         THEN (IF 0 < f.n THEN "add" ELSE "trec")
                     ELSE (IF 0 < f.n THEN "bfly" ELSE "rec1"), !.i = 0]

truncate1_twiddle_entry(f) ==
    [f EXCEPT !.pc = IF f.trunc = 2 * f.n THEN "deleg"
                     ELSE IF f.trunc <= f.n
                         THEN (IF 0 < f.n THEN "add" ELSE "trec")
                     ELSE (IF 0 < f.n THEN "bfly" ELSE "rec1"), !.i = 0]

\* The two loops of the sqrt2 layer of column i, from index j on.
FoldResolve(f, p) ==
    [f EXCEPT !.pc = IF f.j < p.trunc - 2 * p.n THEN "fold_bfly"
                     ELSE IF f.j < 2 * p.n THEN "fold_adj"
                     ELSE "col_call"]

\* The relevant rows taken as rows 0..trunc2-1.
RightRowHead_inorder(f, p) ==
    IF f.s < Trunc2(p)
    THEN [f EXCEPT !.pc = "row", !.i = f.s]
    ELSE [f EXCEPT !.pc = "ret"]

\* for (s = 0; s < trunc2; s++) { i = n_revbin(s, depth); ...
RightRowHead(f, p) ==
    IF f.s < Trunc2(p)
    THEN [f EXCEPT !.pc = "row", !.i = n_revbin(f.s, Depth(N2(p)))]
    ELSE [f EXCEPT !.pc = "ret"]

\* A second half whose relevant rows are transformed in either variant.
RightColHead_rows(f, p, variant) ==
    IF f.i < p.n1 THEN [f EXCEPT !.pc = "col_call"]
    ELSE RightRowHead([f EXCEPT !.s = 0], p)

\* for (i = 0; i < n1; i++) of the second half; then the relevant rows
\* (the outer variant returns instead).
RightColHead(f, p, variant) ==
    IF f.i < p.n1 THEN [f EXCEPT !.pc = "col_call"]
    ELSE IF variant = "full" THEN RightRowHead([f EXCEPT !.s = 0], p)
    ELSE [f EXCEPT !.pc = "ret"]

\* for (i = 0; i < n2; i++) of the first half's rows; then ii += 2 * n.
LeftRowHead(f, p, variant) ==
    IF f.i < N2(p) THEN [f EXCEPT !.pc = "row"]
    ELSE RightColHead([f EXCEPT !.half = 1, !.base = 2 * p.n, !.i = 0],
                      p, variant)

\* A first half whose rows are transformed in either variant.
LeftColHead_rows(f, p, variant) ==
    IF f.i < p.n1 THEN FoldResolve([f EXCEPT !.j = f.i], p)
    ELSE LeftRowHead([f EXCEPT !.i = 0], p, variant)

\* A first half whose rows start when its first column is done.
LeftColHead_nobarrier(f, p, variant) ==
    IF f.i < 1 THEN FoldResolve([f EXCEPT !.j = f.i], p)
    ELSE IF variant = "full" THEN LeftRowHead([f EXCEPT !.i = 0], p, variant)
    ELSE RightColHead([f EXCEPT !.half = 1, !.base = 2 * p.n, !.i = 0],
                      p, variant)

\* for (i = 0; i < n1; i++) of the first half; then its rows (the outer
\* variant goes on to the second half's columns).
LeftColHead(f, p, variant) ==
    IF f.i < p.n1 THEN FoldResolve([f EXCEPT !.j = f.i], p)
    ELSE IF variant = "full" THEN LeftRowHead([f EXCEPT !.i = 0], p, variant)
    ELSE RightColHead([f EXCEPT !.half = 1, !.base = 2 * p.n, !.i = 0],
                      p, variant)

ColHead(f, p, variant) ==
    IF f.half = 0 THEN LeftColHead(f, p, variant)
    ELSE RightColHead(f, p, variant)

RowHead(f, p, variant) ==
    IF f.half = 0 THEN LeftRowHead(f, p, variant) ELSE RightRowHead(f, p)

\* A frame at the first statement its function executes.
Enter(f, p) ==
    CASE f.fn = "r2t" -> radix2_twiddle_entry(f)
      [] f.fn = "t1t" -> truncate1_twiddle_entry(f)
      [] f.fn = "mfa" -> LeftColHead(f, p, "full")
      [] f.fn = "outer" -> LeftColHead(f, p, "outer")
      [] f.fn = "col" -> FoldResolve([f EXCEPT !.j = f.i], p)
      [] OTHER -> f

SetTop(tid, f) ==
    stacks' = [stacks EXCEPT ![tid] = [@ EXCEPT ![Len(@)] = f]]

\* A call: the caller moves on to `self`, the callee's frame is pushed.
Push(tid, self, callee) ==
    /\ Len(stacks[tid]) < StackCap
    /\ stacks' = [stacks EXCEPT ![tid] =
                     Append([@ EXCEPT ![Len(@)] = self], Enter(callee, par))]

Step == [hist EXCEPT !.steps = @ + 1]

Touch(tid, slots) ==
    [hist EXCEPT !.steps = @ + 1, !.foot[tid] = @ \cup slots]

\* ------------------------------------------------------------- SWAP_PTRS
\* SWAP_PTRS(ii[k], *t): the slot and the scratch pointer exchange buffers.
SwapSlotScratch_copy(iiv, tv, k, sc) ==
    << [iiv EXCEPT ![k + 1] = tv[sc]], tv >>

SwapSlotScratch(iiv, tv, k, sc) ==
    << [iiv EXCEPT ![k + 1] = tv[sc]], [tv EXCEPT ![sc] = iiv[k + 1]] >>

\* SWAP_PTRS(ii[a], ii[b]).
SwapSlots(iiv, a, b) ==
    [iiv EXCEPT ![a + 1] = iiv[b + 1], ![b + 1] = iiv[a + 1]]

\* SWAP_PTRS(ii[...], *t1) after a butterfly.
SwapT1(tid) ==
    /\ Running(tid) /\ Top(tid).pc = "swap1"
    /\ LET f == Top(tid)
           r == SwapSlotScratch(ii, t1, f.a1, Sc(tid))
       IN  /\ ii' = r[1]
           /\ t1' = r[2]
           /\ SetTop(tid, [f EXCEPT !.pc = "swap2"])
           /\ hist' = Touch(tid, {f.a1})
    /\ UNCHANGED << sv, par, buf, t2, temp >>

\* What follows the second swap: the return of the leaf, the next round of
\* the butterfly loop and the recursion after it, or the next j of the
\* sqrt2 layer.
AfterSwap2(f, p) ==
    CASE f.k = "leaf" -> [f EXCEPT !.pc = "ret"]
      [] f.k = "loop" ->
            [f EXCEPT !.i = f.i + 1,
                      !.pc = IF f.i + 1 < f.n THEN "bfly" ELSE "rec1"]
      [] OTHER -> FoldResolve([f EXCEPT !.j = f.j + p.n1], p)

\* SWAP_PTRS(ii[...], *t2) after a butterfly.
SwapT2(tid) ==
    /\ Running(tid) /\ Top(tid).pc = "swap2"
    /\ LET f == Top(tid)
           r == SwapSlotScratch(ii, t2, f.a2, Sc(tid))
       IN  /\ ii' = r[1]
           /\ t2' = r[2]
           /\ SetTop(tid, AfterSwap2(f, par))
           /\ hist' = Touch(tid, {f.a2})
    /\ UNCHANGED << sv, par, buf, t1, temp >>

\* return: the frame is popped.
Return(tid) ==
    /\ Running(tid) /\ Top(tid).pc = "ret"
    /\ stacks' = [stacks EXCEPT ![tid] = SubSeq(@, 1, Len(@) - 1)]
    /\ hist' = Step
    /\ UNCHANGED << sv, par, buf, ii, t1, t2, temp >>

\* ------------------------------------------------------ fft_radix2_twiddle
\* The exponents of the base case: tw1 = r * c, tw2 = tw1 + rs * c.
LeafTwiddles_norow(f) == << f.r * f.c, f.r * f.c + f.c >>

LeafTwiddles(f) == << f.r * f.c, f.r * f.c + f.rs * f.c >>

\* n == 1: fft_butterfly_twiddle(*t1, *t2, ii[0], ii[is], limbs, tw1 * ws,
\* tw2 * ws).
R2TLeaf(tid) ==
    /\ Running(tid) /\ Top(tid).fn = "r2t" /\ Top(tid).pc = "leaf"
    /\ LET f == Top(tid)
           tw == LeafTwiddles(f)
           uv == fft_butterfly_twiddle(Val(f.base), Val(f.base + f.is),
                                       Limbs(f), tw[1] * f.ws, tw[2] * f.ws)
       IN  /\ buf' = [buf EXCEPT ![t1[Sc(tid)]] = uv[1],
                                 ![t2[Sc(tid)]] = uv[2]]
           /\ SetTop(tid, [f EXCEPT !.pc = "swap1", !.k = "leaf",
                                    !.a1 = f.base, !.a2 = f.base + f.is])
           /\ hist' = [Touch(tid, {f.base, f.base + f.is}) EXCEPT
                          !.tw = [@ EXCEPT ![t1[Sc(tid)]] = tw[1] * f.ws,
                                           ![t2[Sc(tid)]] = tw[2] * f.ws],
                          !.leafn = @ \cup {f.n},
                          !.wr = [@ EXCEPT ![Sc(tid)] = tid]]
    /\ UNCHANGED << sv, par, ii, t1, t2, temp >>

\* One round of a butterfly loop: fft_butterfly(*t1, *t2, ii[i * is],
\* ii[(n + i) * is], i, limbs, w).
LoopButterfly(tid) ==
    LET f == Top(tid)
        a == f.base + f.i * f.is
        b == f.base + (f.n + f.i) * f.is
        uv == fft_butterfly(Val(a), Val(b), f.i, Limbs(f), f.w)
    IN  /\ buf' = [buf EXCEPT ![t1[Sc(tid)]] = uv[1], ![t2[Sc(tid)]] = uv[2]]
        /\ SetTop(tid, [f EXCEPT !.pc = "swap1", !.k = "loop",
                                 !.a1 = a, !.a2 = b])
        /\ hist' = [Touch(tid, {a, b}) EXCEPT
                       !.tw = [@ EXCEPT ![t1[Sc(tid)]] = -1,
                                        ![t2[Sc(tid)]] = -1],
                       !.wr = [@ EXCEPT ![Sc(tid)] = tid]]
        /\ UNCHANGED << sv, par, ii, t1, t2, temp >>

\* The loop of fft_radix2_twiddle (lines 141-146).
R2TButterfly(tid) ==
    /\ Running(tid) /\ Top(tid).fn = "r2t" /\ Top(tid).pc = "bfly"
    /\ LoopButterfly(tid)

\* The callee of the first recursive call: the lower half, (r, c, 2 rs).
LowerHalfCall(f) ==
    Frame("r2t", f.base, f.is, f.n \div 2, 2 * f.w, f.ws, f.r, f.c,
          2 * f.rs, 0)

\* The callee of the second recursive call: the upper half, (r + rs, c, 2 rs).
UpperHalfCall(f) ==
    Frame("r2t", f.base + f.n * f.is, f.is, f.n \div 2, 2 * f.w, f.ws,
          f.r + f.rs, f.c, 2 * f.rs, 0)

\* fft_radix2_twiddle(ii, is, n / 2, 2 * w, t1, t2, ws, r, c, 2 * rs).
R2TRecurseLower(tid) ==
    /\ Running(tid) /\ Top(tid).fn = "r2t" /\ Top(tid).pc = "rec1"
    /\ Push(tid, [Top(tid) EXCEPT !.pc = "rec2"], LowerHalfCall(Top(tid)))
    /\ hist' = Step
    /\ UNCHANGED << sv, par, buf, ii, t1, t2, temp >>

\* fft_radix2_twiddle(ii + n * is, is, n / 2, 2 * w, t1, t2, ws, r + rs, c,
\* 2 * rs).
R2TRecurseUpper(tid) ==
    /\ Running(tid) /\ Top(tid).fn = "r2t" /\ Top(tid).pc = "rec2"
    /\ Push(tid, [Top(tid) EXCEPT !.pc = "ret"], UpperHalfCall(Top(tid)))
    /\ hist' = Step
    /\ UNCHANGED << sv, par, buf, ii, t1, t2, temp >>

\* --------------------------------------------------- fft_truncate1_twiddle
\* trunc == 2 * n: fft_radix2_twiddle(ii, is, n, w, t1, t2, ws, r, c, rs).
T1TDelegate(tid) ==
    /\ Running(tid) /\ Top(tid).fn = "t1t" /\ Top(tid).pc = "deleg"
    /\ LET f == Top(tid)
       IN  Push(tid, [f EXCEPT !.pc = "ret"],
                Frame("r2t", f.base, f.is, f.n, f.w, f.ws, f.r, f.c, f.rs, 0))
    /\ hist' = Step
    /\ UNCHANGED << sv, par, buf, ii, t1, t2, temp >>

\* trunc <= n: mpn_add_n(ii[i * is], ii[i * is], ii[(i + n) * is], limbs + 1).
T1TAdd(tid) ==
    /\ Running(tid) /\ Top(tid).fn = "t1t" /\ Top(tid).pc = "add"
    /\ LET f == Top(tid)
           a == f.base + f.i * f.is
           b == f.base + (f.i + f.n) * f.is
       IN  /\ buf' = [buf EXCEPT ![ii[a + 1]] =
                                     mpn_add_n(Val(a), Val(b), Limbs(f))]
           /\ SetTop(tid, [f EXCEPT !.i = f.i + 1,
                              !.pc = IF f.i + 1 < f.n THEN "add" ELSE "trec"])
           /\ hist' = [Touch(tid, {a, b}) EXCEPT
                          !.tw = [@ EXCEPT ![ii[a + 1]] = -1]]
    /\ UNCHANGED << sv, par, ii, t1, t2, temp >>

\* The callee after the additions: the lower half, truncated to trunc.
TruncLowerCall(f) ==
    Frame("t1t", f.base, f.is, f.n \div 2, 2 * f.w, f.ws, f.r, f.c,
          2 * f.rs, f.trunc)

\* fft_truncate1_twiddle(ii, is, n / 2, 2 * w, t1, t2, ws, r, c, 2 * rs,
\* trunc).
T1TRecurseLower(tid) ==
    /\ Running(tid) /\ Top(tid).fn = "t1t" /\ Top(tid).pc = "trec"
    /\ Push(tid, [Top(tid) EXCEPT !.pc = "ret"], TruncLowerCall(Top(tid)))
    /\ hist' = Step
    /\ UNCHANGED << sv, par, buf, ii, t1, t2, temp >>

\* The loop of the third case (lines 175-181).
T1TButterfly(tid) ==
    /\ Running(tid) /\ Top(tid).fn = "t1t" /\ Top(tid).pc = "bfly"
    /\ LoopButterfly(tid)

\* fft_radix2_twiddle(ii, is, n / 2, 2 * w, t1, t2, ws, r, c, 2 * rs) of the
\* third case.
T1TRecurseFull(tid) ==
    /\ Running(tid) /\ Top(tid).fn = "t1t" /\ Top(tid).pc = "rec1"
    /\ Push(tid, [Top(tid) EXCEPT !.pc = "trec2"], LowerHalfCall(Top(tid)))
    /\ hist' = Step
    /\ UNCHANGED << sv, par, buf, ii, t1, t2, temp >>

\* The callee of the last call: the upper half, row r + rs, trunc - n.
TruncUpperCall_samerow(f) ==
    Frame("t1t", f.base + f.n * f.is, f.is, f.n \div 2, 2 * f.w, f.ws,
          f.r, f.c, 2 * f.rs, f.trunc - f.n)

TruncUpperCall(f) ==
    Frame("t1t", f.base + f.n * f.is, f.is, f.n \div 2, 2 * f.w, f.ws,
          f.r + f.rs, f.c, 2 * f.rs, f.trunc - f.n)

\* fft_truncate1_twiddle(ii + n * is, is, n / 2, 2 * w, t1, t2, ws, r + rs,
\* c, 2 * rs, trunc - n).
T1TRecurseUpper(tid) ==
    /\ Running(tid) /\ Top(tid).fn = "t1t" /\ Top(tid).pc = "trec2"
    /\ Push(tid, [Top(tid) EXCEPT !.pc = "ret"], TruncUpperCall(Top(tid)))
    /\ hist' = Step
    /\ UNCHANGED << sv, par, buf, ii, t1, t2, temp >>

\* -------------------------------------------------------------- fft_radix2
\* The plain base transform, in one step: st = [buf, ii, t1, t2] with t1,
\* t2 the buffers the scratch pointers name.
Radix2Butterfly(st, a, b, i, limbs, w) ==
    LET uv == fft_butterfly(st.buf[st.ii[a + 1]], st.buf[st.ii[b + 1]],
                            i, limbs, w)
    IN  [buf |-> [st.buf EXCEPT ![st.t1] = uv[1], ![st.t2] = uv[2]],
         ii |-> [st.ii EXCEPT ![a + 1] = st.t1, ![b + 1] = st.t2],
         t1 |-> st.ii[a + 1], t2 |-> st.ii[b + 1]]

\* The loop of butterflies of one layer, from index i on.  (Each state is
\* bound as a set element, which fixes its value before the next step
\* reads it.)
RECURSIVE Radix2Layer(_, _, _, _, _)
Radix2Layer(st, base, n, w, i) ==
    IF i >= n THEN st
    ELSE CHOOSE out \in
             {Radix2Layer(x, base, n, w, i + 1) :
                  x \in {Radix2Butterfly(st, base + i, base + n + i, i,
                                         (w * n) \div FLINT_BITS, w)}} : TRUE

\* fft_radix2(ii, n, w, t1, t2) for a half-length n >= 1.
RECURSIVE fft_radix2(_, _, _, _)
fft_radix2(st, base, n, w) ==
    IF n = 1
    THEN Radix2Butterfly(st, base, base + 1, 0, (w * n) \div FLINT_BITS, w)
    ELSE CHOOSE out \in
             {fft_radix2(y, base + n, n \div 2, 2 * w) :
                  y \in {fft_radix2(x, base, n \div 2, 2 * w) :
                             x \in {Radix2Layer(st, base, n, w, 0)}}} : TRUE

\* ------------------------------------------------- fft_mfa_truncate_sqrt2
IsMfa(f) == f.fn \in {"mfa", "outer", "col"}

Variant(f) == IF f.fn = "mfa" THEN "full" ELSE "outer"

\* The butterfly of the sqrt2 layer at index j (lines 252-260, 273-275):
\* the two outputs, and what is left in temp (<<>>: temp is not used).
FoldButterfly(x, y, j, limbs, w) ==
    IF w % 2 = 1
    THEN IF j % 2 = 1
         THEN LET r == fft_butterfly_sqrt2(x, y, j, limbs, w)
              IN  [s |-> r[1], t |-> r[2], tmp |-> r[3]]
         ELSE LET r == fft_butterfly(x, y, j \div 2, limbs, w)
              IN  [s |-> r[1], t |-> r[2], tmp |-> << >>]
    ELSE LET r == fft_butterfly(x, y, j, limbs, w \div 2)
         IN  [s |-> r[1], t |-> r[2], tmp |-> << >>]

\* The adjust of the sqrt2 layer at index j of column i (lines 265-271,
\* 281-282): the value written to ii[j + 2n], and what is left in temp.
FoldAdjust(x, i, j, limbs, w) ==
    IF w % 2 = 1
    THEN IF i % 2 = 1
         THEN LET r == fft_adjust_sqrt2(x, j, limbs, w)
              IN  [r |-> r[1], tmp |-> r[2]]
         ELSE [r |-> fft_adjust(x, j \div 2, limbs, w), tmp |-> << >>]
    ELSE [r |-> fft_adjust(x, j, limbs, w \div 2), tmp |-> << >>]

\* The butterfly of the first loop over j (j < trunc - 2n).
MfaFoldButterfly(tid) ==
    /\ Running(tid) /\ IsMfa(Top(tid)) /\ Top(tid).pc = "fold_bfly"
    /\ LET f == Top(tid)
           a == f.j
           b == 2 * par.n + f.j
           r == FoldButterfly(Val(a), Val(b), f.j, MfaLimbs(par), par.w)
           sc == Sc(tid)
       IN  /\ buf' = [k \in DOMAIN buf |->
                         IF k = t2[sc] THEN r.t
                         ELSE IF k = t1[sc] THEN r.s
                         ELSE IF k = temp[sc] /\ r.tmp # << >> THEN r.tmp
                         ELSE buf[k]]
           /\ SetTop(tid, [f EXCEPT !.pc = "swap1", !.k = "fold",
                                    !.a1 = a, !.a2 = b])
           /\ hist' = [Touch(tid, {a, b}) EXCEPT
                          !.tw = [@ EXCEPT ![t1[sc]] = -1, ![t2[sc]] = -1],
                          !.wr = [@ EXCEPT ![sc] = tid],
                          !.fold = @ \cup {<< f.i, f.j, "butterfly",
                                             r.tmp # << >> >>}]
    /\ UNCHANGED << sv, par, ii, t1, t2, temp >>

\* The adjust of the second loop over j (j < 2n).
MfaFoldAdjust(tid) ==
    /\ Running(tid) /\ IsMfa(Top(tid)) /\ Top(tid).pc = "fold_adj"
    /\ LET f == Top(tid)
           a == f.j
           b == f.j + 2 * par.n
           r == FoldAdjust(Val(a), f.i, f.j, MfaLimbs(par), par.w)
           sc == Sc(tid)
       IN  /\ buf' = [k \in DOMAIN buf |->
                         IF k = ii[b + 1] THEN r.r
                         ELSE IF k = temp[sc] /\ r.tmp # << >> THEN r.tmp
                         ELSE buf[k]]
           /\ SetTop(tid, FoldResolve([f EXCEPT !.j = f.j + par.n1], par))
           /\ hist' = [Touch(tid, {a, b}) EXCEPT
                          !.tw = [@ EXCEPT ![ii[b + 1]] = -1],
                          !.fold = @ \cup {<< f.i, f.j, "adjust",
                                             r.tmp # << >> >>}]
    /\ UNCHANGED << sv, par, ii, t1, t2, temp >>

\* The column transform with w * n1 passed for ws as well.
ColumnCall_ws(f, p) ==
    IF f.half = 0
    THEN Frame("r2t", f.base + f.i, p.n1, N2(p) \div 2, p.w * p.n1,
               p.w * p.n1, 0, f.i, 1, 0)
    ELSE Frame("t1t", f.base + f.i, p.n1, N2(p) \div 2, p.w * p.n1,
               p.w * p.n1, 0, f.i, 1, Trunc2(p))

\* The column transform of column i: fft_radix2_twiddle(ii + i, n1, n2 / 2,
\* w * n1, t1, t2, w, 0, i, 1) in the first half, fft_truncate1_twiddle(...,
\* trunc2) in the second.
ColumnCall(f, p) ==
    IF f.half = 0
    THEN Frame("r2t", f.base + f.i, p.n1, N2(p) \div 2, p.w * p.n1,
               p.w, 0, f.i, 1, 0)
    ELSE Frame("t1t", f.base + f.i, p.n1, N2(p) \div 2, p.w * p.n1,
               p.w, 0, f.i, 1, Trunc2(p))

MfaColumnCall(tid) ==
    /\ Running(tid) /\ IsMfa(Top(tid)) /\ Top(tid).pc = "col_call"
    /\ Push(tid, [Top(tid) EXCEPT !.pc = "reorder", !.j = 0],
            ColumnCall(Top(tid), par))
    /\ hist' = [Step EXCEPT
                   !.colstart = @ \cup {<< Top(tid).half, Top(tid).i >>}]
    /\ UNCHANGED << sv, par, buf, ii, t1, t2, temp >>

\* One round of a reorder loop: s = n_revbin(j, depth); if (j < s)
\* SWAP_PTRS(ii[a(j)], ii[a(s)]), which leaves the slots as they are otherwise.
ReorderSwap(iiv, j, s, a, b) == IF j < s THEN SwapSlots(iiv, a, b) ELSE iiv

\* The buffers that hold the first trunc2 outputs of the column transform
\* of column i when it returns.
ColumnOutputs(f, p) ==
    {ii[f.base + f.i + q * p.n1 + 1] : q \in 0..(Trunc2(p) - 1)}

\* The reorder of column i (lines 290-294), one j a step; after the last
\* j, the next column.  (hist.outs keeps the buffers the truncated column
\* transforms returned their outputs in, hist.cols the columns whose
\* transform and reorder are done, hist.colstart those whose transform was
\* called.)
MfaColumnReorder(tid) ==
    /\ Running(tid) /\ IsMfa(Top(tid)) /\ Top(tid).pc = "reorder"
    /\ LET f == Top(tid)
           s == n_revbin(f.j, Depth(N2(par)))
           a == f.base + f.i + f.j * par.n1
           b == f.base + f.i + s * par.n1
       IN  /\ ii' = ReorderSwap(ii, f.j, s, a, b)
           /\ SetTop(tid, IF f.j + 1 < N2(par) THEN [f EXCEPT !.j = f.j + 1]
                          ELSE IF f.fn = "col" THEN [f EXCEPT !.pc = "ret"]
                          ELSE ColHead([f EXCEPT !.i = f.i + 1], par,
                                       Variant(f)))
           /\ hist' = [Touch(tid, IF f.j < s THEN {a, b} ELSE {}) EXCEPT
                          !.outs = IF f.half = 1 /\ f.j = 0
                                   THEN @ \cup ColumnOutputs(f, par)
                                   ELSE @,
                          !.cols = IF f.j + 1 < N2(par) THEN @
                                   ELSE @ \cup {<< f.half, f.i >>}]
    /\ UNCHANGED << sv, par, buf, t1, t2, temp >>

\* The row transform of row i: fft_radix2(ii + i * n1, n1 / 2, w * n2, t1,
\* t2).  The plain transform is defined for a half-length of at least 1; a
\* call with n1 / 2 = 0 does not come back.
MfaRowTransform(tid) ==
    /\ Running(tid) /\ IsMfa(Top(tid)) /\ Top(tid).pc = "row"
    /\ LET f == Top(tid)
           sc == Sc(tid)
           st == fft_radix2([buf |-> buf, ii |-> ii, t1 |-> t1[sc],
                             t2 |-> t2[sc]],
                            f.base + f.i * par.n1, par.n1 \div 2,
                            par.w * N2(par))
       IN  IF par.n1 \div 2 >= 1
           THEN /\ buf' = st.buf
                /\ ii' = st.ii
                /\ t1' = [t1 EXCEPT ![sc] = st.t1]
                /\ t2' = [t2 EXCEPT ![sc] = st.t2]
                /\ SetTop(tid, [f EXCEPT !.pc = "row_reorder", !.j = 0])
                /\ hist' = [Step EXCEPT !.rows = Append(@, << f.half, f.i >>)]
           ELSE /\ SetTop(tid, [f EXCEPT !.pc = "radix2_n0"])
                /\ hist' = [Step EXCEPT !.rows = Append(@, << f.half, f.i >>)]
                /\ UNCHANGED << buf, ii, t1, t2 >>
    /\ UNCHANGED << sv, par, temp >>

\* The reorder of row i (lines 300-304, 330-334), one j a step; after the
\* last j, the next row.
MfaRowReorder(tid) ==
    /\ Running(tid) /\ IsMfa(Top(tid)) /\ Top(tid).pc = "row_reorder"
    /\ LET f == Top(tid)
           t == n_revbin(f.j, Depth(par.n1))
           a == f.base + f.i * par.n1 + f.j
           b == f.base + f.i * par.n1 + t
       IN  /\ ii' = ReorderSwap(ii, f.j, t, a, b)
           /\ SetTop(tid, IF f.j + 1 < par.n1 THEN [f EXCEPT !.j = f.j + 1]
                          ELSE IF f.half = 0
                              THEN RowHead([f EXCEPT !.i = f.i + 1], par,
                                           Variant(f))
                          ELSE RowHead([f EXCEPT !.s = f.s + 1], par,
                                       Variant(f)))
           /\ hist' = Touch(tid, IF f.j < t THEN {a, b} ELSE {})
    /\ UNCHANGED << sv, par, buf, t1, t2, temp >>

\* ------------------------------------------------- the calls that are run
\* The frame of a job's entry point.
JobFrame(job, p) ==
    CASE job \in {"mfa", "outer"} ->
            Frame(job, 0, 1, p.n, p.w, 0, 0, 0, 0, p.trunc)
      [] job = "r2t" ->
            Frame("r2t", 0, p.is, p.n, p.w, p.ws, p.r, p.c, p.rs, 0)
      [] job = "t1t" ->
            Frame("t1t", 0, p.is, p.n, p.w, p.ws, p.r, p.c, p.rs, p.trunc)
      [] OTHER ->
            Frame("bft", 0, 1, 1, p.w, 1, 0, 0, 0, 0)

\* The body of the column loop for column i of one half, as a task.
ColFrame(i, p) ==
    [Frame("col", IF p.half = 0 THEN 0 ELSE 2 * p.n, 1, p.n, p.w,
           0, 0, 0, 0, p.trunc) EXCEPT !.i = i, !.half = p.half]

\* One stack per task: the column tasks of a phase, or the one caller.
JobStacks(job, p) ==
    IF job \in {"colseq", "cols", "colsh"}
    THEN [tid \in 1..p.n1 |->
             << IF p.half = 0
                THEN FoldResolve([ColFrame(tid - 1, p) EXCEPT !.j = tid - 1], p)
                ELSE [ColFrame(tid - 1, p) EXCEPT !.pc = "col_call"] >>]
    ELSE << << Enter(JobFrame(job, p), p) >> >>

NBuf(p) == p.nslots + 3 * p.nscr

\* The state at the entry of a job: slot k owns buffer k, the scratch
\* pointers own the buffers after them; with values `vals`.
EnterJob(p, job, vals, h) ==
    /\ par = p
    /\ buf = vals
    /\ ii = [k \in 1..p.nslots |-> k]
    /\ t1 = [sc \in 1..p.nscr |-> p.nslots + 3 * (sc - 1) + 1]
    /\ t2 = [sc \in 1..p.nscr |-> p.nslots + 3 * (sc - 1) + 2]
    /\ temp = [sc \in 1..p.nscr |-> p.nslots + 3 * (sc - 1) + 3]
    /\ stacks = JobStacks(job, p)
    /\ hist = h
    /\ sv = << >>

Hist0(p) ==
    [job |-> 1, snap |-> << >>, steps |-> 0, rows |-> << >>,
     fold |-> {}, outs |-> {}, colstart |-> {}, cols |-> {},
     tw |-> [k \in 1..NBuf(p) |-> -1], leafn |-> {},
     wr |-> [sc \in 1..p.nscr |-> 0],
     foot |-> [tid \in 1..p.ntasks |-> {}], in0 |-> << >>]

Forms(p) == [k \in 1..NBuf(p) |-> Unit(k, NBuf(p))]

Par(scn, jobs, n, w, n1, trunc) ==
    [scn |-> scn, jobs |-> jobs, n |-> n, w |-> w, n1 |-> n1,
     trunc |-> trunc, is |-> 1, ws |-> 0, r |-> 0, c |-> 0, rs |-> 0,
     b1 |-> 0, b2 |-> 0, half |-> 0, nscr |-> 1,
     ntasks |-> 1, nslots |-> 4 * n]

Ns == {2 ^ k : k \in 0..MaxLogN}

\* The strides of the column calls.
Strides == {1, 2}

AllDone == \A tid \in DOMAIN stacks : ~Running(tid)

\* The values the slots hold.
Values == [k \in 1..Len(ii) |-> buf[ii[k]]]

\* The caller's next call on the same input: what the first call left is
\* kept in hist.snap, and the signal and scratch are set up afresh.
StartNextJob ==
    /\ AllDone
    /\ hist.job < Len(par.jobs)
    /\ buf' = hist.in0
    /\ ii' = [k \in 1..par.nslots |-> k]
    /\ t1' = [sc \in 1..par.nscr |-> par.nslots + 3 * (sc - 1) + 1]
    /\ t2' = [sc \in 1..par.nscr |-> par.nslots + 3 * (sc - 1) + 2]
    /\ temp' = [sc \in 1..par.nscr |-> par.nslots + 3 * (sc - 1) + 3]
    /\ stacks' = JobStacks(par.jobs[hist.job + 1], par)
    /\ hist' = [Hist0(par) EXCEPT !.job = hist.job + 1, !.snap = Values,
                                  !.steps = hist.steps + 1,
                                  !.in0 = hist.in0]
    /\ UNCHANGED << sv, par >>

\* ------------------------------------------- a call of the butterfly alone
\* fft_butterfly_twiddle(*t1, *t2, ii[0], ii[1], limbs, b1, b2), called by
\* itself.
ButterflyTwiddleCall(tid) ==
    /\ Running(tid) /\ Top(tid).fn = "bft"
    /\ LET uv == fft_butterfly_twiddle(Val(0), Val(1), Limbs(Top(tid)),
                                       par.b1, par.b2)
       IN  buf' = [buf EXCEPT ![t1[Sc(tid)]] = uv[1], ![t2[Sc(tid)]] = uv[2]]
    /\ stacks' = [stacks EXCEPT ![tid] = << >>]
    /\ hist' = Touch(tid, {0, 1})
    /\ UNCHANGED << sv, par, ii, t1, t2, temp >>

\* --------------------------------------------------------- specification
\* The values of trunc a call is made with: 2n + k * n1 for every k in
\* 0..n2 (k = 0, odd k and, with n1 = 1, odd trunc among them), and one
\* trunc that is no 2n + k * n1.
Truncs(n, n1) ==
    {2 * n + k * n1 : k \in 0..((2 * n) \div n1)}
        \cup {tr \in {2 * n + n1 + 1} : n1 >= 2 /\ tr <= 4 * n}

\* fft_mfa_truncate_sqrt2_outer, then fft_mfa_truncate_sqrt2 on the same
\* input: every n, w with n * w a whole number of words, every power of two
\* n1 <= 2n, every trunc of Truncs.
InitMfa ==
    \E n \in Ns, l \in 1..MaxLimbs :
        \E n1 \in {x \in Pow2Set : x <= 2 * n} : \E tr \in Truncs(n, n1) :
            /\ (l * FLINT_BITS) % n = 0
            /\ LET p == Par("mfa", << "outer", "mfa" >>, n,
                            (l * FLINT_BITS) \div n, n1, tr)
               IN  EnterJob(p, "outer", Forms(p),
                            [Hist0(p) EXCEPT !.in0 = Forms(p)])

\* fft_radix2_twiddle, then fft_truncate1_twiddle on the same column of 2n
\* slots at stride is: every even trunc in 2..2n and the twiddle parameters
\* whose rotation amounts are below 2 * limbs * FLINT_BITS.
InitCol ==
    \E n \in Ns, l \in 1..MaxLimbs, is \in Strides :
        \E tr \in {2 * x : x \in 1..n}, ws \in 1..MaxTw, r \in {0, 1},
           c \in 0..MaxTw, rs \in {1, 2} :
            /\ (l * FLINT_BITS) % n = 0
            /\ ws * c * (r + rs * (2 * n - 1)) < 2 * l * FLINT_BITS
            /\ LET p == [Par("col", << "r2t", "t1t" >>, n,
                             (l * FLINT_BITS) \div n, 1, tr)
                         EXCEPT !.is = is, !.ws = ws, !.r = r, !.c = c,
                                !.rs = rs, !.nslots = 2 * n * is]
               IN  EnterJob(p, "r2t", Forms(p),
                            [Hist0(p) EXCEPT !.in0 = Forms(p)])

\* The residues the butterfly is called on: 0, 1, 2^(nw-1) and -1 = 2^nw.
Residues(limbs) ==
    {0, 1, 2 ^ (limbs * FLINT_BITS - 1), Modulus(limbs) - 1}

\* fft_butterfly_twiddle on two residues s, t (or on the two linear forms
\* s = (1, 0), t = (0, 1), which stand for all residues), with every b1, b2
\* below 2 * limbs * FLINT_BITS.
InitBfly ==
    \E l \in 1..MaxLimbs :
        \E b1 \in 0..(2 * l * FLINT_BITS - 1),
           b2 \in 0..(2 * l * FLINT_BITS - 1),
           st \in {<< << x >>, << y >>, << 0 >> >> :
                       x \in Residues(l), y \in Residues(l)}
                  \cup {<< << 1, 0 >>, << 0, 1 >>, << 0, 0 >> >>} :
            LET p == [Par("bfly", << "bft" >>, 1, l * FLINT_BITS, 1, 2)
                      EXCEPT !.b1 = b1, !.b2 = b2, !.nslots = 2]
                vals == << st[1], st[2], st[3], st[3], st[3] >>
            IN  EnterJob(p, "bft", vals, [Hist0(p) EXCEPT !.in0 = vals])

Init == InitMfa \/ InitCol

Next ==
    \/ StartNextJob
    \/ SwapT1(1)
    \/ SwapT2(1)
    \/ Return(1)
    \/ R2TLeaf(1)
    \/ R2TButterfly(1)
    \/ R2TRecurseLower(1)
    \/ R2TRecurseUpper(1)
    \/ T1TDelegate(1)
    \/ T1TAdd(1)
    \/ T1TRecurseLower(1)
    \/ T1TButterfly(1)
    \/ T1TRecurseFull(1)
    \/ T1TRecurseUpper(1)
    \/ MfaFoldButterfly(1)
    \/ MfaFoldAdjust(1)
    \/ MfaColumnCall(1)
    \/ MfaColumnReorder(1)
    \/ MfaRowTransform(1)
    \/ MfaRowReorder(1)

Spec == Init /\ [][Next]_vars

\* The butterfly called by itself.
NextBfly == ButterflyTwiddleCall(1)

SpecBfly == InitBfly /\ [][NextBfly]_vars

\* fft_mfa_truncate_sqrt2 called by itself, on the parameters of InitMfa.
InitFull ==
    \E n \in Ns, l \in 1..MaxLimbs :
        \E n1 \in {x \in Pow2Set : x <= 2 * n} : \E tr \in Truncs(n, n1) :
            /\ (l * FLINT_BITS) % n = 0
            /\ LET p == Par("full", << "mfa" >>, n,
                            (l * FLINT_BITS) \div n, n1, tr)
               IN  EnterJob(p, "mfa", Forms(p),
                            [Hist0(p) EXCEPT !.in0 = Forms(p)])

NextFull ==
    \/ SwapT1(1)
    \/ SwapT2(1)
    \/ Return(1)
    \/ R2TLeaf(1)
    \/ R2TButterfly(1)
    \/ R2TRecurseLower(1)
    \/ R2TRecurseUpper(1)
    \/ T1TDelegate(1)
    \/ T1TAdd(1)
    \/ T1TRecurseLower(1)
    \/ T1TButterfly(1)
    \/ T1TRecurseFull(1)
    \/ T1TRecurseUpper(1)
    \/ MfaFoldButterfly(1)
    \/ MfaFoldAdjust(1)
    \/ MfaColumnCall(1)
    \/ MfaColumnReorder(1)
    \/ MfaRowTransform(1)
    \/ MfaRowReorder(1)

\* The one caller runs its call to the end: a statement that can execute
\* does execute.
SpecFull == InitFull /\ [][NextFull]_vars /\ WF_vars(NextFull)

\* The column phase of one half, as n1 column tasks (n1 <= MaxTasks,
\* n2 >= 2, trunc a multiple of 2 * n1): first in the sequential order of
\* the loop on the caller's scratch triple ("colseq"), then in every
\* interleaving with a scratch triple per task ("cols"), then two of them
\* on the one triple ("colsh"); coefficients of 1 and of MaxLimbs words.
InitPar ==
    \E n \in Ns, l \in {1, MaxLimbs}, half \in {0, 1} :
        \E n1 \in {x \in Pow2Set : x <= MaxTasks /\ x <= n} :
            \E tr \in {2 * n + 2 * k * n1 : k \in 1..(n \div n1)} :
                /\ (l * FLINT_BITS) % n = 0
                /\ LET p == [Par("par", << "colseq", "cols", "colsh" >>, n,
                                 (l * FLINT_BITS) \div n, n1, tr)
                             EXCEPT !.half = half, !.nscr = n1, !.ntasks = n1]
                   IN  EnterJob(p, "colseq", Forms(p),
                                [Hist0(p) EXCEPT !.in0 = Forms(p)])

\* A task whose butterfly output, left in the scratch buffers, was
\* overwritten by another task's butterfly before both swaps were done.
Overwritten(tid) ==
    /\ Running(tid) /\ Top(tid).pc \in {"swap1", "swap2"}
    /\ hist.wr[Sc(tid)] # tid

\* The schedules that are run: "colseq" takes the tasks in the order of the
\* loop; "cols" takes any task at any time; "colsh" lets task 2 preempt
\* task 1 once, and is followed up to the first overwritten output.
Turn(tid) ==
    /\ tid \in DOMAIN stacks
    /\ CASE Job = "colseq" -> \A t \in 1..(tid - 1) : ~Running(t)
         [] Job = "colsh" ->
                /\ tid <= 2
                /\ (tid = 1 /\ 2 \in DOMAIN stacks)
                       => stacks[2] = JobStacks("colsh", par)[2]
                /\ \A t \in DOMAIN stacks : ~Overwritten(t)
         [] OTHER -> TRUE

NextPar ==
    \/ StartNextJob
    \/ \E tid \in 1..MaxTasks : Turn(tid) /\ SwapT1(tid)
    \/ \E tid \in 1..MaxTasks : Turn(tid) /\ SwapT2(tid)
    \/ \E tid \in 1..MaxTasks : Turn(tid) /\ Return(tid)
    \/ \E tid \in 1..MaxTasks : Turn(tid) /\ R2TLeaf(tid)
    \/ \E tid \in 1..MaxTasks : Turn(tid) /\ R2TButterfly(tid)
    \/ \E tid \in 1..MaxTasks : Turn(tid) /\ R2TRecurseLower(tid)
    \/ \E tid \in 1..MaxTasks : Turn(tid) /\ R2TRecurseUpper(tid)
    \/ \E tid \in 1..MaxTasks : Turn(tid) /\ T1TDelegate(tid)
    \/ \E tid \in 1..MaxTasks : Turn(tid) /\ T1TAdd(tid)
    \/ \E tid \in 1..MaxTasks : Turn(tid) /\ T1TRecurseLower(tid)
    \/ \E tid \in 1..MaxTasks : Turn(tid) /\ T1TButterfly(tid)
    \/ \E tid \in 1..MaxTasks : Turn(tid) /\ T1TRecurseFull(tid)
    \/ \E tid \in 1..MaxTasks : Turn(tid) /\ T1TRecurseUpper(tid)
    \/ \E tid \in 1..MaxTasks : Turn(tid) /\ MfaFoldButterfly(tid)
    \/ \E tid \in 1..MaxTasks : Turn(tid) /\ MfaFoldAdjust(tid)
    \/ \E tid \in 1..MaxTasks : Turn(tid) /\ MfaColumnCall(tid)
    \/ \E tid \in 1..MaxTasks : Turn(tid) /\ MfaColumnReorder(tid)

SpecPar == InitPar /\ [][NextPar]_vars

\* ================================================================ primes.c
\* The arrays of primes.c are sequences here: element [i] of the program is
\* element [i + 1] of the sequence.  A bitmap is the set of the indices of its
\* set bits.

UINT_FAST32_BIT == 2 ^ LogBits
MINIMUM_PMAX == 10

MAX(a, b) == IF a > b THEN a ELSE b
MIN(a, b) == IF a < b THEN a ELSE b

\* sqrt() converted to an unsigned integer.
sqrt(x) == CHOOSE r \in 0..x : r * r <= x /\ (r + 1) * (r + 1) > x

\* bitmap.h
fill_bits(sieve, lo, hi) == sieve \cup lo..hi
clear_bit(sieve, b) == sieve \ {b}
\* The first set bit at or after i; the size of the bitmap when there is none.
next_bit(sieve, size, i) ==
    IF \E b \in sieve : b >= i /\ b < size
    THEN CHOOSE b \in sieve : b >= i /\ b < size
                              /\ \A c \in sieve : c >= i => b <= c
    ELSE size
first_bit(sieve, size) == next_bit(sieve, size, 0)

\* memset_fast32(sieve, UINT_FAST32_MAX, count): count whole words are set.
memset_fast32(sieve, count) == sieve \cup 0..(count * UINT_FAST32_BIT - 1)

\* The inner loop of the trial division (lines 81-91): the list low_primes
\* after the odd number p has been tried from position minp on.  The loop
\* runs while minp <= low_prime_count, but it always ends before minp reaches
\* low_prime_count: the largest prime q below p has q * q > p.
RECURSIVE TrialDivide(_, _, _)
TrialDivide(low_primes, p, minp) ==
    IF minp >= Len(low_primes) THEN low_primes
    ELSE IF low_primes[minp + 1] * low_primes[minp + 1] > p
         THEN Append(low_primes, p)
    ELSE IF p % low_primes[minp + 1] = 0 THEN low_primes
    ELSE TrialDivide(low_primes, p, minp + 1)

\* The loop of lines 80-91 from the odd number p on.
RECURSIVE LowPrimes(_, _, _)
LowPrimes(low_primes, p, low_prime_limit) ==
    IF p >= low_prime_limit THEN low_primes
    ELSE LowPrimes(TrialDivide(low_primes, p, 0), p + 2, low_prime_limit)

\* The inner loop of lines 107-113: the multiples composite, composite + 2 *
\* low_prime, ... below max_prime are cleared.
RECURSIVE ClearComposites(_, _, _, _, _)
ClearComposites(sieve, low_prime, sieve_index, composite, max_prime) ==
    IF composite < max_prime
    THEN ClearComposites(clear_bit(sieve, sieve_index), low_prime,
                         sieve_index + low_prime, composite + 2 * low_prime,
                         max_prime)
    ELSE sieve

\* The loop of lines 100-114 from low prime i on.
RECURSIVE SieveLowPrimes(_, _, _, _)
SieveLowPrimes(sieve, low_primes, i, max_prime) ==
    IF i >= Len(low_primes) THEN sieve
    ELSE SieveLowPrimes(
             ClearComposites(sieve, low_primes[i + 1],
                             (3 * low_primes[i + 1] - 1) \div 2,
                             3 * low_primes[i + 1], max_prime),
             low_primes, i + 1, max_prime)

\* The loop of lines 121-126 from bit i on: the set bits become primes.
RECURSIVE CollectPrimes(_, _, _, _)
CollectPrimes(sieve, size, i, prime_table) ==
    IF i < size
    THEN CollectPrimes(sieve, size, next_bit(sieve, size, i + 1),
                       Append(prime_table, 2 * i + 1))
    ELSE prime_table

\* init_prime_sieve(pmax): the table of primes it builds.
init_prime_sieve(pmax0) ==
    LET pmax == MAX(MINIMUM_PMAX, pmax0)
        max_prime == sqrt(pmax) + 1
        low_prime_limit == sqrt(max_prime) + 1
        low_primes == LowPrimes(<< 3 >>, 5, low_prime_limit)
        sieve0 == fill_bits({}, 1, max_prime \div 2 - 1)
        sieve == SieveLowPrimes(sieve0, low_primes, 0, max_prime)
    IN  CollectPrimes(sieve, max_prime \div 2,
                      first_bit(sieve, max_prime \div 2), << >>)

\* arithmetic.h: the Legendre symbol (a / p).
legendre64(a, p) ==
    IF a % p = 0 THEN 0
    ELSE IF \E x \in 1..(p - 1) : (x * x) % p = a % p THEN 1
    ELSE 0 - 1

test_bit(map, b) == b \in map

\* The sequences k*b^n+c that are sieved decide which primes are of use: the
\* parity of their exponents seq_parity, and either the lookup tables seq_map
\* of residues modulo seq_mod or, when seq_mod = 0, the numbers kc_core and
\* b_term.
Sequences ==
    { [seq_parity |-> 0, seq_mod |-> 0, seq_map |-> << {}, {} >>,
       kc_core |-> 1, b_term |-> 1],
      [seq_parity |-> 1, seq_mod |-> 0, seq_map |-> << {}, {} >>,
       kc_core |-> 2, b_term |-> 1],
      [seq_parity |-> 0 - 1, seq_mod |-> 0, seq_map |-> << {}, {} >>,
       kc_core |-> 2, b_term |-> 3],
      [seq_parity |-> 0, seq_mod |-> 3, seq_map |-> << {0}, {1} >>,
       kc_core |-> 1, b_term |-> 1],
      [seq_parity |-> 1, seq_mod |-> 3, seq_map |-> << {0, 2}, {} >>,
       kc_core |-> 1, b_term |-> 1] }

\* The body of the loops over the candidates (lines 219-238, 250-269,
\* 308-325, 337-354): the calls of fun made for a candidate, as a sequence of
\* pairs << p, parity >>.
Calls(s, candidate) ==
    LET q == s.seq
        sym == legendre64(q.kc_core, candidate)
        qr_mod == (candidate \div 2) % q.seq_mod
    IN  IF q.seq_parity = 0
        THEN LET qr_even == IF q.seq_mod # 0
                            THEN test_bit(q.seq_map[1], qr_mod)
                            ELSE sym = 1
                 qr_odd == IF q.seq_mod # 0
                           THEN test_bit(q.seq_map[2], qr_mod)
                           ELSE sym = legendre64(q.b_term, candidate)
             IN  IF qr_even \/ qr_odd
                 THEN << << candidate,
                            IF qr_even THEN (IF qr_odd THEN 0 ELSE 1)
                            ELSE 0 - 1 >> >>
                 ELSE << >>
        ELSE LET qr == IF q.seq_mod # 0
                       THEN test_bit(q.seq_map[1], qr_mod)
                       ELSE IF q.seq_parity = 1 THEN sym = 1
                       ELSE sym = legendre64(q.b_term, candidate)
             IN  IF qr THEN << << candidate, q.seq_parity >> >> ELSE << >>

\* -------------------------------------------------------------- setup_sieve
\* primes_used_in_range does not grow.
GrowUsed_once(s, used, low_end_of_range, y) == used

\* The loop of lines 169-176: primes_used_in_range grows by PRIMES_USED_STEP
\* until the square of the last prime used exceeds the high end of the window.
RECURSIVE GrowUsed(_, _, _, _)
GrowUsed(s, used, low_end_of_range, y) ==
    IF used < Len(s.prime_table)
    THEN IF s.prime_table[used] * s.prime_table[used]
                > low_end_of_range + s.range_size * 2 ^ y
         THEN used
         ELSE GrowUsed(s, used + PRIMES_USED_STEP, low_end_of_range, y)
    ELSE used

\* The loop of lines 189-190: the next multiple of max_prime after
\* last_composite that is 1 modulo 2^y.
RECURSIVE NextComposite(_, _, _)
NextComposite(last_composite, max_prime, y) ==
    IF (last_composite + max_prime) % (2 ^ y) # 1
    THEN NextComposite(last_composite + max_prime, max_prime, y)
    ELSE last_composite + max_prime

setup_sieve(s, low_end_of_range, y) ==
    IF s.primes_used_in_range >= Len(s.prime_table) THEN s
    ELSE LET save_used_in_range == s.primes_used_in_range
             used0 == IF s.primes_used_in_range = 0 THEN PRIMES_USED_STEP
                      ELSE s.primes_used_in_range
             used == MIN(GrowUsed(s, used0, low_end_of_range, y),
                         Len(s.prime_table))
         IN  [s EXCEPT
                 !.primes_used_in_range = used,
                 !.composite_table =
                     [i \in 1..Len(s.prime_table) |->
                         IF i - 1 >= save_used_in_range /\ i - 1 < used
                         THEN NextComposite(
                                  (low_end_of_range \div s.prime_table[i])
                                      * s.prime_table[i],
                                  s.prime_table[i], y)
                         ELSE s.composite_table[i]]]

\* -------------------------------------------------------------- prime_sieve
\* sv is a record: the arguments pmax, low_prime, high_prime; the globals
\* range_size, seq, prime_table, composite_table, primes_used_in_range; the
\* locals low_end_of_range, sieve, i, k; the position pc in prime_sieve; and
\* calls, the calls of fun made so far.

Idle ==
    /\ par = << >> /\ buf = << >> /\ ii = << >> /\ t1 = << >> /\ t2 = << >>
    /\ temp = << >> /\ stacks = << >> /\ hist = << >>

\* Only the first multiple in the window is cleared.
ClearWindow_once(sieve, sieve_index, prime, range_size) ==
    << clear_bit(sieve, sieve_index), sieve_index + prime >>

\* The inner loop of lines 293-294: the bits sieve_index, sieve_index + prime,
\* ... below range_size are cleared; the result is the pair of the bitmap and
\* the first index not below range_size.
RECURSIVE ClearWindow(_, _, _, _)
ClearWindow(sieve, sieve_index, prime, range_size) ==
    IF sieve_index + prime < range_size
    THEN ClearWindow(clear_bit(sieve, sieve_index), sieve_index + prime,
                     prime, range_size)
    ELSE << clear_bit(sieve, sieve_index), sieve_index + prime >>

\* Lines 199-211, 277-280: the call is entered.
PrimeSieveEnter ==
    /\ sv.pc = "call"
    /\ LET n == Len(sv.prime_table)
       IN  IF sv.low_prime <= sv.prime_table[n]
           THEN sv' = [sv EXCEPT
                    !.pc = "table",
                    !.i = CHOOSE i \in 0..(n - 1) :
                              /\ sv.prime_table[i + 1] >= sv.low_prime
                              /\ \A j \in 0..(i - 1) :
                                     sv.prime_table[j + 1] < sv.low_prime]
           ELSE sv' = [sv EXCEPT
                    !.pc = "window",
                    !.low_end_of_range =
                        (IF sv.low_prime % 2 = 1 THEN sv.low_prime
                         ELSE sv.low_prime + 1) - 1,
                    !.sieve = {},
                    !.primes_used_in_range = 0]
    /\ UNCHANGED << par, buf, ii, t1, t2, temp, stacks, hist >>

\* Lines 215-241, 246-272: one prime of the table.
TableCandidate ==
    /\ sv.pc = "table"
    /\ sv.i < Len(sv.prime_table)
    /\ LET candidate == sv.prime_table[sv.i + 1]
       IN  IF candidate > sv.high_prime
           THEN sv' = [sv EXCEPT !.pc = "done"]
           ELSE sv' = [sv EXCEPT !.i = sv.i + 1,
                                 !.calls = sv.calls \o Calls(sv, candidate)]
    /\ UNCHANGED << par, buf, ii, t1, t2, temp, stacks, hist >>

\* Lines 274, 279-280: the table is exhausted.
TableEnd ==
    /\ sv.pc = "table"
    /\ sv.i >= Len(sv.prime_table)
    /\ sv' = [sv EXCEPT
                 !.pc = "window",
                 !.low_end_of_range = sv.prime_table[Len(sv.prime_table)] + 1,
                 !.sieve = {},
                 !.primes_used_in_range = 0]
    /\ UNCHANGED << par, buf, ii, t1, t2, temp, stacks, hist >>

\* Lines 282-285: a window is set up.
SetupWindow ==
    /\ sv.pc = "window"
    /\ sv.low_end_of_range <= sv.high_prime
    /\ sv' = [setup_sieve(sv, sv.low_end_of_range, 1) EXCEPT
                 !.pc = "clear",
                 !.i = 0,
                 !.sieve = memset_fast32(sv.sieve,
                                         sv.range_size \div UINT_FAST32_BIT)]
    /\ UNCHANGED << par, buf, ii, t1, t2, temp, stacks, hist >>

\* Lines 282, 362: the windows are exhausted.
PrimeSieveReturn ==
    /\ sv.pc = "window"
    /\ sv.low_end_of_range > sv.high_prime
    /\ sv' = [sv EXCEPT !.pc = "done"]
    /\ UNCHANGED << par, buf, ii, t1, t2, temp, stacks, hist >>

\* Lines 287-297: the multiples of one prime are cleared.
ClearMultiples ==
    /\ sv.pc = "clear"
    /\ sv.i < sv.primes_used_in_range
    /\ IF sv.composite_table[sv.i + 1]
              < sv.low_end_of_range + 2 * sv.range_size
       THEN LET prime == sv.prime_table[sv.i + 1]
                sieve_index == (sv.composite_table[sv.i + 1]
                                    - sv.low_end_of_range) \div 2
                cleared == ClearWindow(sv.sieve, sieve_index, prime,
                                       sv.range_size)
            IN  sv' = [sv EXCEPT
                         !.i = sv.i + 1,
                         !.sieve = cleared[1],
                         !.composite_table[sv.i + 1] =
                             sv.low_end_of_range + 2 * cleared[2] + 1]
       ELSE sv' = [sv EXCEPT !.i = sv.i + 1]
    /\ UNCHANGED << par, buf, ii, t1, t2, temp, stacks, hist >>

\* Lines 299-300: the scan of the window starts.
ClearEnd ==
    /\ sv.pc = "clear"
    /\ sv.i >= sv.primes_used_in_range
    /\ sv' = [sv EXCEPT
                 !.pc = "scan",
                 !.k = MIN((sv.high_prime - sv.low_end_of_range + 1) \div 2,
                           sv.range_size),
                 !.i = first_bit(sv.sieve, sv.range_size)]
    /\ UNCHANGED << par, buf, ii, t1, t2, temp, stacks, hist >>

\* Lines 304-328, 333-357: one candidate of the window.
ScanCandidate ==
    /\ sv.pc = "scan"
    /\ sv.i < sv.k
    /\ sv' = [sv EXCEPT
                 !.i = next_bit(sv.sieve, sv.range_size, sv.i + 1),
                 !.calls = sv.calls
                     \o Calls(sv, sv.low_end_of_range + 2 * sv.i + 1)]
    /\ UNCHANGED << par, buf, ii, t1, t2, temp, stacks, hist >>

\* Line 359: the next window.
NextWindow ==
    /\ sv.pc = "scan"
    /\ sv.i >= sv.k
    /\ sv' = [sv EXCEPT
                 !.pc = "window",
                 !.low_end_of_range = sv.low_end_of_range + 2 * sv.range_size]
    /\ UNCHANGED << par, buf, ii, t1, t2, temp, stacks, hist >>

Pmaxs == {1, 50, 130, MaxPmax}
RangeSizes == {r * UINT_FAST32_BIT : r \in 1..MaxRangeWords}

\* The state after init_prime_sieve(pmax), at a call prime_sieve(low_prime,
\* high_prime, fun) with high_prime <= pmax.
InitSieve ==
    /\ Idle
    /\ \E pmax \in Pmaxs, range_size \in RangeSizes, seq \in Sequences :
       \E high_prime \in {1, 2, 13, pmax - 1, pmax} \cap 0..pmax :
       \E low_prime \in {0, 3, 8, high_prime - 20, high_prime + 1}
                            \cap (high_prime - MaxSpan)..(high_prime + 1) :
           /\ low_prime >= 0
           /\ sv = [pmax |-> pmax, low_prime |-> low_prime,
                    high_prime |-> high_prime, range_size |-> range_size,
                    seq |-> seq,
                    prime_table |-> init_prime_sieve(pmax),
                    composite_table |->
                        [i \in 1..Len(init_prime_sieve(pmax)) |-> 0],
                    primes_used_in_range |-> 0,
                    low_end_of_range |-> 0, sieve |-> {}, i |-> 0, k |-> 0,
                    pc |-> "call", calls |-> << >>]

NextSieve ==
    \/ PrimeSieveEnter
    \/ TableCandidate
    \/ TableEnd
    \/ SetupWindow
    \/ PrimeSieveReturn
    \/ ClearMultiples
    \/ ClearEnd
    \/ ScanCandidate
    \/ NextWindow

SpecSieve == InitSieve /\ [][NextSieve]_vars

\* ================================================================= claims
TheStack == stacks[1]

TopFrame == Top(1)

\* C1.  Ownership: the slots of the signal and the scratch pointers *t1, *t2,
\* *temp own distinct buffers at the entry of a call, and in every state of
\* fft_butterfly_twiddle, fft_radix2_twiddle, fft_truncate1_twiddle,
\* fft_mfa_truncate_sqrt2 and its outer variant (after every SWAP_PTRS and
\* every recursive call) every buffer is still owned by exactly one of them:
\* none has two owners and none is orphaned.  (As many owners as buffers,
\* and every buffer among what they own.)
Owners == ii \o t1 \o t2 \o temp

C1_Ownership ==
    /\ Len(Owners) = NBuf(par)
    /\ {Owners[k] : k \in 1..Len(Owners)} = 1..NBuf(par)

\* The full transform has returned, and the slots no longer own the buffers
\* they owned at entry.
C1_Witness ==
    /\ par.scn = "mfa" /\ Job = "mfa" /\ AllDone
    /\ \E k \in 1..Len(ii) : ii[k] # k
    /\ t1[1] <= par.nslots

\* C2.  fft_butterfly_twiddle: for all residues s, t modulo 2^nw + 1 and all
\* b1, b2 with 0 <= b1, b2 < 2nw the outputs are u = 2^b1 (s + t) and
\* v = 2^b2 (s - t); an amount b >= nw is the rotation by b - nw followed by
\* the negation of that same output (b1 for u, b2 for v), so the rotation by
\* exactly nw bits is the negation.
BflyNw == par.w

BflyS == hist.in0[1]

BflyT == hist.in0[2]

BflyLimbs == par.w \div FLINT_BITS

BflyOut(x, b, got) ==
    /\ got = mpn_mul_2expmod_2expp1(x, BflyLimbs, b)
    /\ b >= BflyNw =>
          got = mpn_neg_n(mpn_mul_2expmod_2expp1(x, BflyLimbs, b - BflyNw),
                          BflyLimbs)
    /\ b = BflyNw => got = mpn_neg_n(x, BflyLimbs)

C2_ButterflyTwiddle ==
    (par.scn = "bfly" /\ AllDone) =>
        /\ BflyOut(mpn_add_n(BflyS, BflyT, BflyLimbs), par.b1, buf[t1[1]])
        /\ BflyOut(mpn_sub_n(BflyS, BflyT, BflyLimbs), par.b2, buf[t2[1]])
        /\ buf[ii[1]] = BflyS /\ buf[ii[2]] = BflyT

\* The butterfly has returned from a call with b1 >= nw > b2 on residues
\* whose sum and difference are not their own negatives.
C2_Witness ==
    /\ par.scn = "bfly" /\ AllDone
    /\ par.b1 >= BflyNw /\ par.b2 < BflyNw /\ par.b2 > 0
    /\ BflyS = << 1 >> /\ BflyT = << 0 >>
    /\ buf[t1[1]] # buf[t2[1]]
    /\ buf[t1[1]] # mpn_mul_2expmod_2expp1(BflyS, BflyLimbs, par.b1 - BflyNw)

\* C3.  For every even trunc in 2..2n and the same input and parameters
\* (is, w, ws, r, c, rs), the first trunc output slots of
\* fft_truncate1_twiddle hold the residues the first trunc output slots of
\* fft_radix2_twiddle hold; with trunc = 2n all 2n slots agree.
TruncatedDone == par.scn = "col" /\ Job = "t1t" /\ AllDone

C3_TruncatedAgreesWithFull ==
    TruncatedDone =>
        \A q \in 0..(par.trunc - 1) :
            Val(q * par.is) = hist.snap[q * par.is + 1]

\* A truncated transform with trunc < 2n has returned, on twiddled rows
\* (c > 0), and a slot past trunc differs from the full transform's.
C3_Witness ==
    /\ TruncatedDone
    /\ par.n >= 2 /\ par.trunc < 2 * par.n /\ par.trunc > par.n
    /\ par.c > 0 /\ par.r > 0
    /\ \E q \in par.trunc..(2 * par.n - 1) :
           Val(q * par.is) # hist.snap[q * par.is + 1]

\* C4.  Outer variant, right half: the values the right-half slots
\* ii[2n..4n-1] hold when fft_mfa_truncate_sqrt2_outer returns are the values
\* they hold in fft_mfa_truncate_sqrt2, on the same input and parameters, at
\* the point immediately before its right-half row pass begins (after the
\* right-half column transforms and their reorder).
FullBeforeRightRows ==
    /\ par.scn = "mfa" /\ Job = "mfa"
    /\ Len(TheStack) = 1
    /\ TopFrame.half = 1
    /\ \/ TopFrame.pc = "row" /\ TopFrame.s = 0
       \/ TopFrame.pc = "ret" /\ Trunc2(par) = 0

C4_OuterRightHalf ==
    FullBeforeRightRows =>
        \A k \in (2 * par.n)..(4 * par.n - 1) : Val(k) = hist.snap[k + 1]

\* The full transform stands before its right-half row pass, with rows of
\* at least two slots, and the right half is no longer the input.
C4_Witness ==
    /\ FullBeforeRightRows
    /\ TopFrame.pc = "row" /\ par.n1 >= 2 /\ par.n1 < 2 * par.n
    /\ Trunc2(par) >= 2
    /\ \E k \in (2 * par.n)..(4 * par.n - 1) : Val(k) # hist.in0[k + 1]

\* C5.  Outer variant, left half.  As stated: the outer variant omits the row
\* pass for the right half only, the left half still receives its row pass,
\* so on return the left-half slots ii[0..2n-1] hold the values they hold
\* after fft_mfa_truncate_sqrt2 on the same input (here for the parameters
\* the transform is specified for: n1 >= 2, n2 >= 2, trunc a multiple of
\* 2 * n1 with 2n < trunc <= 4n).
FullReturned ==
    /\ par.scn = "mfa" /\ Job = "mfa" /\ AllDone
    /\ par.n1 >= 2 /\ N2(par) >= 2
    /\ par.trunc % (2 * par.n1) = 0 /\ par.trunc > 2 * par.n

C5_LeftHalfAsStated ==
    FullReturned =>
        \A k \in 0..(2 * par.n - 1) : Val(k) = hist.snap[k + 1]

\* C5, as the code has it: the outer variant performs the column pass and
\* the reorder for both halves and no row pass for either half; on return
\* the left-half slots ii[0..2n-1] hold the values they hold in
\* fft_mfa_truncate_sqrt2, on the same input, immediately before its
\* left-half row pass begins.
FullBeforeLeftRows ==
    /\ par.scn = "mfa" /\ Job = "mfa"
    /\ Len(TheStack) = 1
    /\ TopFrame.half = 0 /\ TopFrame.pc = "row" /\ TopFrame.i = 0

C5_OuterLeftHalf ==
    /\ (par.scn = "mfa" /\ Job = "outer") => hist.rows = << >>
    /\ FullBeforeLeftRows =>
           \A k \in 0..(2 * par.n - 1) : Val(k) = hist.snap[k + 1]

\* The full transform stands before its left-half row pass, with rows of at
\* least two slots and the sqrt2 layer applied (w odd).
C5_Witness ==
    /\ FullBeforeLeftRows
    /\ par.n1 >= 2 /\ N2(par) >= 2 /\ par.w % 2 = 1
    /\ par.trunc % (2 * par.n1) = 0 /\ par.trunc > 2 * par.n
    /\ \E k \in 0..(2 * par.n - 1) : Val(k) # hist.in0[k + 1]

\* C6.  Termination.  As stated: for n and n1 powers of two, n1 * n2 = 2n,
\* trunc even with 2n < trunc <= 4n and trunc = 2n + k * n1 for an integer k,
\* no call of fft_mfa_truncate_sqrt2 ever makes a call with n = 0.
StatedPrecondition ==
    /\ par.scn = "full"
    /\ par.trunc % 2 = 0
    /\ 2 * par.n < par.trunc /\ par.trunc <= 4 * par.n
    /\ (par.trunc - 2 * par.n) % par.n1 = 0

CallWithZero ==
    \/ \E d \in 1..Len(TheStack) :
           TheStack[d].fn \in {"r2t", "t1t"} /\ TheStack[d].n = 0
    \/ Running(1) /\ TopFrame.pc = "radix2_n0"

RequiredPrecondition ==
    /\ par.scn = "full"
    /\ par.n1 >= 2 /\ N2(par) >= 2
    /\ par.trunc % (2 * par.n1) = 0
    /\ 2 * par.n < par.trunc /\ par.trunc <= 4 * par.n

ColumnDone == par.scn = "col" /\ Job = "r2t" /\ AllDone

RelevantRows == {n_revbin(s, Depth(N2(par))) : s \in 0..(Trunc2(par) - 1)}

RowsWithOutputs ==
    {r \in 0..(N2(par) - 1) :
        \A j \in 0..(par.n1 - 1) :
            ii[2 * par.n + r * par.n1 + j + 1] \in hist.outs}

RowPassLog ==
    [x \in 1..(N2(par) + Trunc2(par)) |->
        IF x <= N2(par) THEN << 0, x - 1 >>
        ELSE << 1, n_revbin(x - N2(par) - 1, Depth(N2(par))) >>]

C8_RelevantRows ==
    /\ FullBeforeRightRows =>
           /\ RowsWithOutputs = RelevantRows
           /\ Cardinality(RelevantRows) = Trunc2(par)
    /\ (par.scn = "mfa" /\ Job = "mfa" /\ AllDone) =>
           /\ hist.rows = RowPassLog
           /\ \A r \in (0..(N2(par) - 1)) \ RelevantRows :
                  \A j \in 0..(par.n1 - 1) :
                      /\ Val(2 * par.n + r * par.n1 + j)
                             = hist.snap[2 * par.n + r * par.n1 + j + 1]
                      /\ ii[2 * par.n + r * par.n1 + j + 1] \notin hist.outs

\* The full transform has returned from a call in which the relevant rows
\* are not the first trunc2 rows, and a row between them was left as the
\* column pass left it.
C8_Witness ==
    /\ par.scn = "mfa" /\ Job = "mfa" /\ AllDone
    /\ Trunc2(par) >= 2 /\ Trunc2(par) < N2(par)
    /\ 1 \notin RelevantRows
    /\ hist.rows[N2(par) + 2] = << 1, N2(par) \div 2 >>
    /\ Val(2 * par.n + par.n1) # hist.in0[2 * par.n + par.n1 + 1]

\* C9.  Fail-fast preconditions: when fft_mfa_truncate_sqrt2 is called with
\* parameters that violate its preconditions (trunc odd, trunc not a
\* multiple of 2 * n1, or trunc <= 2n), the operation stops before
\* modifying any coefficient: no slot of the signal ever holds a value other
\* than its input.
PreconditionViolated ==
    \/ par.trunc % 2 = 1
    \/ par.trunc % (2 * par.n1) # 0
    \/ par.trunc <= 2 * par.n

C9_FailFast ==
    (par.scn = "full" /\ PreconditionViolated) =>
        \A k \in 0..(4 * par.n - 1) : Val(k) = hist.in0[k + 1]

\* C10.  Column independence: in the column phase of fft_mfa_truncate_sqrt2
\* (and of the outer variant) the work for column i (sqrt2 layer, column
\* transform, reorder) reads and writes only the signal slots whose index
\* is congruent to i modulo n1, plus the scratch buffers; so with a private
\* scratch triple per column task every interleaving of the n1 tasks of a
\* phase ends with the signal values of the sequential order and no task's
\* butterfly output is overwritten before it is swapped into place, whereas
\* two concurrent tasks that share t1, t2 can reach a state where one's
\* output is overwritten before it is swapped into place.
ColumnSlots(tid) ==
    {k \in 0..(4 * par.n - 1) : k % par.n1 = tid - 1}

C10_ColumnIndependence ==
    par.scn = "par" =>
        /\ \A tid \in DOMAIN stacks : hist.foot[tid] \subseteq ColumnSlots(tid)
        /\ Job = "cols" => \A tid \in DOMAIN stacks : ~Overwritten(tid)
        /\ (Job = "cols" /\ AllDone) => Values = hist.snap

\* After the sequential and the private-scratch runs of the phase, two tasks
\* share t1, t2: task 1 has its first swap still to do, task 2's butterfly
\* was the last to write the scratch buffers, and what *t1 holds is made of
\* the inputs of task 2's column.
C10_Witness ==
    /\ par.scn = "par" /\ Job = "colsh"
    /\ Overwritten(1) /\ Top(1).pc = "swap1"
    /\ hist.wr[1] = 2
    /\ \E x \in ColumnSlots(2) : buf[t1[1]][x + 1] # 0
    /\ \A x \in ColumnSlots(1) : buf[t1[1]][x + 1] = 0

\* C11.  Phase barrier: in fft_mfa_truncate_sqrt2, for each half, no row
\* transform of that half starts before all n1 column transforms and column
\* reorders of that half have completed; and no right-half column transform
\* starts before the sqrt2 layer of every left-half column has completed.
ColumnsOfHalf(h) == {<< h, i >> : i \in 0..(par.n1 - 1)}

RowPhaseStarted(h) ==
    \/ \E x \in 1..Len(hist.rows) : hist.rows[x][1] = h
    \/ Running(1) /\ TopFrame.fn = "mfa" /\ TopFrame.half = h
           /\ TopFrame.pc \in {"row", "row_reorder", "radix2_n0"}

FoldedPositions == {x[2] : x \in hist.fold}

C11_PhaseBarrier ==
    par.scn = "full" =>
        /\ \A h \in {0, 1} :
               RowPhaseStarted(h) => ColumnsOfHalf(h) \subseteq hist.cols
        /\ (\E i \in 0..(par.n1 - 1) : << 1, i >> \in hist.colstart) =>
               /\ FoldedPositions = 0..(2 * par.n - 1)
               /\ ColumnsOfHalf(0) \subseteq hist.cols

\* The row pass of the right half is about to start in a call with at
\* least two columns and four rows: the columns of both halves are done and
\* the rows of the left half have been transformed.
C11_Witness ==
    /\ par.scn = "full" /\ Running(1) /\ Len(TheStack) = 1
    /\ TopFrame.pc = "row" /\ TopFrame.half = 1 /\ TopFrame.s = 0
    /\ par.n1 >= 2 /\ N2(par) >= 4
    /\ hist.cols = ColumnsOfHalf(0) \cup ColumnsOfHalf(1)
    /\ Len(hist.rows) = N2(par)

\* C14.  Rotation amounts: in a call of fft_mfa_truncate_sqrt2 or of its
\* outer variant with a valid trunc, every rotation amount b1 = tw1 * ws,
\* b2 = tw2 * ws that a column transform passes to fft_butterfly_twiddle
\* satisfies 0 <= b < 2 * n * w = 2 * limbs * FLINT_BITS, where limbs is the
\* argument passed with it; and w * n is the same at every level of the
\* recursion of the column transform.
ValidTrunc ==
    /\ par.trunc % (2 * par.n1) = 0
    /\ 2 * par.n < par.trunc /\ par.trunc <= 4 * par.n

TwiddleFrames ==
    {d \in 1..Len(TheStack) : TheStack[d].fn \in {"r2t", "t1t"}}

\* The rotation amounts of the call of fft_butterfly_twiddle about to be made.
LeafAmounts ==
    {LeafTwiddles(TopFrame)[x] * TopFrame.ws : x \in {1, 2}}

AtLeaf == Running(1) /\ TopFrame.fn = "r2t" /\ TopFrame.pc = "leaf"

C14_RotationAmounts ==
    (par.scn = "mfa" /\ ValidTrunc) =>
        /\ AtLeaf =>
               /\ \A b \in LeafAmounts :
                      0 <= b /\ b < 2 * par.n * par.w
               /\ 2 * par.n * par.w = 2 * Limbs(TopFrame) * FLINT_BITS
        /\ \A d \in TwiddleFrames :
               /\ d - 1 \in TwiddleFrames =>
                      TheStack[d].w * TheStack[d].n
                          = TheStack[d - 1].w * TheStack[d - 1].n
               /\ TheStack[d].n >= 1 =>
                      TheStack[d].w * TheStack[d].n = par.w * par.n

\* A truncated column transform of the right half is about to rotate by the
\* largest amount of its column, two levels into its recursion.
C14_Witness ==
    /\ par.scn = "mfa" /\ ValidTrunc /\ AtLeaf
    /\ Cardinality(TwiddleFrames) >= 2
    /\ \E d \in TwiddleFrames : TheStack[d].fn = "t1t"
    /\ par.n1 >= 2
    /\ \E b \in LeafAmounts :
           b = par.w * (par.n1 - 1) * (N2(par) - 1)

\* C15.  Sqrt2 layer: in the left-half column pass of fft_mfa_truncate_sqrt2
\* and of its outer variant, for every power of two n1 (n1 = 1 included) and
\* every valid trunc,
\* each position j of [0, 2n) is processed once, in column j mod n1, by a
\* butterfly with ii[2n + j] when j < trunc - 2n and by an adjust otherwise,
\* before the column transform of that column starts; and the sqrt2 variant
\* of the butterfly or adjust is the one used exactly when w and j are odd.
C15_Sqrt2Layer ==
    (par.scn = "mfa" /\ ValidTrunc) =>
        /\ \A x \in hist.fold :
               /\ x[2] \in 0..(2 * par.n - 1) /\ x[2] % par.n1 = x[1]
               /\ x[3] = (IF x[2] < par.trunc - 2 * par.n THEN "butterfly"
                          ELSE "adjust")
               /\ x[4] = (par.w % 2 = 1 /\ x[2] % 2 = 1)
        /\ \A x, y \in hist.fold : x[2] = y[2] => x = y
        /\ \A i \in 0..(par.n1 - 1) :
               << 0, i >> \in hist.colstart =>
                   {j \in 0..(2 * par.n - 1) : j % par.n1 = i}
                       \subseteq FoldedPositions

\* ------------------------------------------------------------------ primes.c
IsPrime(p) == p >= 2 /\ \A d \in 2..(p - 1) : d * d > p \/ p % d # 0

Reported == {sv.calls[x][1] : x \in 1..Len(sv.calls)}

Wanted ==
    {p \in sv.low_prime..sv.high_prime :
        IsPrime(p) /\ p % 2 = 1 /\ Calls(sv, p) # << >>}

OddMultipleAfter(p, low) ==
    CHOOSE m \in (low + 1)..(low + 2 * p) : m % p = 0 /\ m % 2 = 1

\* The entries of composite_table in use.
UsedEntries == 0..(sv.primes_used_in_range - 1)

\* C13.  composite_table: when the sieving of a window starts, after
\* setup_sieve(low_end_of_range, 1), composite_table[i] is for every
\* i < primes_used_in_range the smallest odd multiple of prime_table[i] that
\* is greater than low_end_of_range, and it is greater than prime_table[i], so
\* it is a composite.  The clearing loop leaves in each entry it has passed,
\* sieved or skipped, the smallest odd multiple greater than low_end_of_range
\* + 2 * range_size, the start of the next window.
C13_CompositeTable ==
    /\ sv.pc = "clear" =>
           \A i \in UsedEntries :
               /\ sv.composite_table[i + 1] =
                      OddMultipleAfter(sv.prime_table[i + 1],
                          IF i < sv.i
                          THEN sv.low_end_of_range + 2 * sv.range_size
                          ELSE sv.low_end_of_range)
               /\ sv.composite_table[i + 1] > sv.prime_table[i + 1]
    /\ sv.pc = "scan" =>
           \A i \in UsedEntries :
               sv.composite_table[i + 1] =
                   OddMultipleAfter(sv.prime_table[i + 1],
                       sv.low_end_of_range + 2 * sv.range_size)
    /\ sv.pc = "window" =>
           \A i \in UsedEntries :
               sv.composite_table[i + 1] =
                   OddMultipleAfter(sv.prime_table[i + 1],
                                    sv.low_end_of_range)

\* The clearing loop of a later window has ended; primes_used_in_range has
\* grown past its first step, one entry was sieved in this window and another
\* was skipped.
C13_Witness ==
    /\ sv.pc = "scan"
    /\ sv.low_end_of_range > sv.prime_table[Len(sv.prime_table)] + 1
    /\ sv.primes_used_in_range > PRIMES_USED_STEP
    /\ \E i \in UsedEntries :
           sv.composite_table[i + 1] - 2 * sv.prime_table[i + 1]
               > sv.low_end_of_range
    /\ \E i \in UsedEntries :
           sv.composite_table[i + 1] - 2 * sv.prime_table[i + 1]
               <= sv.low_end_of_range - 2 * sv.range_size
====
